---- MODULE Spec2Model ----
(***************************************************************************)
(* Include dependency graph engine of EmulatRAppUni:                       *)
(*   src/Python/dead_file_finder.py  (discovery, resolver, graph build,    *)
(*                                    BFS reachability)                    *)
(*   src/Python/check_circular.py    (file map, resolver, include graph,   *)
(*                                    DFS cycle enumeration)               *)
(*                                                                         *)
(* A Python str is modelled as a sequence of one-character strings, so     *)
(* that endswith, startswith, slicing and pathlib's splitting are computed *)
(* as the code computes them.  Paths are relative and use "/" only.        *)
(***************************************************************************)
EXTENDS Integers, Sequences, FiniteSets, TLC

VARIABLES
    pc,             \* position of the running program
    files,          \* dead_file_finder: keys of the files dict (rel_path)
    content,        \* the include literals of each file on disk, by line
    entry_arg,      \* args.entry (None when omitted)
    extra_arg,      \* args.extra_entry
    entry_points,   \* main: entry_points list
    resolved_deps,  \* FileNode.resolved_deps
    included_by,    \* FileNode.included_by
    broken,         \* list of BrokenInclude
    reachable,      \* FileNode.reachable
    depth,          \* FileNode.depth
    is_entry,       \* FileNode.is_entry
    queue,          \* walk_reachability: deque of (path, depth)
    visited,        \* walk_reachability: visited set
    enq_count,      \* history: how many times each key was appended to queue
    res_in,         \* resolver under test: (raw, includer)
    res_out,        \* resolver under test: results
    disk,           \* check_circular: the paths that exist under the root
    file_map,       \* check_circular: file_map (key -> path)
    include_graph,  \* check_circular: include_graph (path -> set of paths)
    todo,           \* find_all_cycles: nodes whose DFS has not run yet
    checked_cycles, \* find_all_cycles: set of canonical tuples
    all_cycles,     \* find_all_cycles: retained list
    root_is_dir,    \* main: the project root is an existing directory
    args,           \* dead_file_finder main: the mode switches
    moved,          \* move_to_hive: rel_paths moved (or listed by a dry run)
    del_lines,      \* print_removal_script: paths of the `del` lines
    aggs,           \* main: aggs, the result of detect_aggregators
    notes,          \* main: the paths of the NOTE lines it logs
    src_lines,      \* extractors: the physical lines of the file read
    ext_pos,        \* extractors: number of lines consumed
    in_comment_block, \* extract_includes: in_comment_block
    includes,       \* extract_includes: includes
    results         \* parse_includes: results

vars == <<pc, files, content, entry_arg, extra_arg, entry_points,
          resolved_deps, included_by, broken, reachable, depth, is_entry,
          queue, visited, enq_count, res_in, res_out,
          disk, file_map, include_graph, todo, checked_cycles, all_cycles,
          root_is_dir, args, moved, del_lines, aggs, notes,
          src_lines, ext_pos, in_comment_block, includes, results>>

dffVars == <<files, content, entry_arg, extra_arg, entry_points,
             resolved_deps, included_by, broken, reachable, depth, is_entry,
             queue, visited, enq_count>>

resVars == <<res_in, res_out>>

cycVars == <<disk, file_map, include_graph, todo, checked_cycles,
             all_cycles>>

outVars == <<root_is_dir, args, moved, del_lines, aggs, notes>>

extVars == <<src_lines, ext_pos, in_comment_block, includes, results>>

----------------------------------------------------------------------------
(* Python str and pathlib.PurePath operations on relative paths.           *)

\* Python None, and the empty str: both are false in `if resolved:`.
None == <<>>

\* s.startswith(p)
StartsWith(s, p) == Len(p) <= Len(s) /\ SubSeq(s, 1, Len(p)) = p

\* s.endswith(p)
EndsWith(s, p) ==
    Len(p) <= Len(s) /\ SubSeq(s, Len(s) - Len(p) + 1, Len(s)) = p

\* index of the first "/" of s, 0 when there is none
FirstSlash(s) ==
    IF \E i \in 1..Len(s) : s[i] = "/"
    THEN CHOOSE i \in 1..Len(s) :
             s[i] = "/" /\ \A j \in 1..(i - 1) : s[j] # "/"
    ELSE 0

\* s.split('/')
RECURSIVE SplitSlash(_)
SplitSlash(s) ==
    LET i == FirstSlash(s)
    IN  IF i = 0 THEN <<s>>
        ELSE <<SubSeq(s, 1, i - 1)>> \o SplitSlash(SubSeq(s, i + 1, Len(s)))

\* '/'.join(parts)
RECURSIVE JoinSlash(_)
JoinSlash(parts) ==
    IF parts = <<>> THEN <<>>
    ELSE IF Len(parts) = 1 THEN parts[1]
    ELSE parts[1] \o <<"/">> \o JoinSlash(Tail(parts))

IsRealPart(seg) == seg # <<>> /\ seg # <<".">>

\* Path(s).parts : empty and "." segments are dropped, ".." is kept
PathParts(s) == SelectSeq(SplitSlash(s), IsRealPart)

\* str(Path(s)).replace('\\', '/')
PathStr(s) ==
    LET parts == PathParts(s)
    IN  IF parts = <<>> THEN <<".">> ELSE JoinSlash(parts)

\* Path(s).name
PathName(s) ==
    LET parts == PathParts(s)
    IN  IF parts = <<>> THEN <<>> ELSE parts[Len(parts)]

\* str(Path(s).parent).replace('\\', '/')
PathParent(s) ==
    LET parts == PathParts(s)
    IN  IF Len(parts) <= 1 THEN <<".">>
        ELSE JoinSlash(SubSeq(parts, 1, Len(parts) - 1))

\* name.rfind('.') as a 1-based index, 0 when there is no dot
LastDot(name) ==
    IF \E i \in 1..Len(name) : name[i] = "."
    THEN CHOOSE i \in 1..Len(name) :
             name[i] = "." /\ \A j \in (i + 1)..Len(name) : name[j] # "."
    ELSE 0

\* Path(s).stem
PathStem(s) ==
    LET name == PathName(s)
        j    == LastDot(name)
    IN  IF 1 < j /\ j < Len(name) THEN SubSeq(name, 1, j - 1) ELSE name

\* Path(s).suffix
PathSuffix(s) ==
    LET name == PathName(s)
        j    == LastDot(name)
    IN  IF 1 < j /\ j < Len(name) THEN SubSeq(name, j, Len(name)) ELSE <<>>

\* the sequences that list the members of set S once each, in any order
Orderings(S) ==
    {q \in [1..Cardinality(S) -> S] : \A x \in S : \E i \in DOMAIN q : q[i] = x}

Range(q) == {q[i] : i \in DOMAIN q}

----------------------------------------------------------------------------
(* dead_file_finder.py : configuration                                     *)

SOURCE_EXTENSIONS ==
    { <<".", "c", "p", "p">>, <<".", "c", "x", "x">>,
      <<".", "c", "c">>, <<".", "c">> }

HEADER_EXTENSIONS ==
    { <<".", "h">>, <<".", "h", "p", "p">>,
      <<".", "h", "x", "x">>, <<".", "i", "n", "l">> }

ALL_EXTENSIONS == SOURCE_EXTENSIONS \cup HEADER_EXTENSIONS

MAIN_CANDIDATES ==
    << <<"m", "a", "i", "n", ".", "c", "p", "p">>,
       <<"M", "a", "i", "n", ".", "c", "p", "p">>,
       <<"m", "a", "i", "n", ".", "c", "x", "x">>,
       <<"m", "a", "i", "n", ".", "c", "c">> >>

\* keys of the files dict; `files` lists them in insertion order
Keys == Range(files)

----------------------------------------------------------------------------
(* dead_file_finder.py : resolve_include                                   *)

\* while stripped.startswith('../'): stripped = stripped[3:]
RECURSIVE StripDotDot(_)
StripDotDot(s) ==
    IF StartsWith(s, <<".", ".", "/">>)
    THEN StripDotDot(SubSeq(s, 4, Len(s)))
    ELSE s

\* Path(p).parts[0] if Path(p).parts else ''
TopOf(p) ==
    LET parts == PathParts(p)
    IN  IF parts # <<>> THEN parts[1] ELSE <<>>

\* step 1: the candidate relative to the includer's directory, as str(Path())
RelativeCandidate(raw, includer_rel) ==
    LET parent       == PathParent(includer_rel)
        includer_dir == IF parent = <<".">> THEN <<>> ELSE parent
        candidate    == IF includer_dir # <<>>
                        THEN includer_dir \o <<"/">> \o raw
                        ELSE raw
    IN  PathStr(candidate)

\* step 4: the loop over n = len(raw_parts) .. 1, entered at n
RECURSIVE TrailingMatch(_, _, _, _)
TrailingMatch(raw_parts, n, includer_rel, F) ==
    IF n = 0 THEN None
    ELSE
    LET suffix       == JoinSlash(SubSeq(raw_parts, Len(raw_parts) - n + 1,
                                         Len(raw_parts)))
        matches      == {r \in F : EndsWith(r, suffix)}
        includer_top == TopOf(includer_rel)
        same_tree    == {m \in matches :
                            PathParts(m) # <<>> /\ PathParts(m)[1] = includer_top}
    IN  IF Cardinality(matches) = 1
        THEN CHOOSE m \in matches : TRUE
        ELSE IF Cardinality(matches) > 1 /\ n >= 2
                /\ Cardinality(same_tree) = 1
        THEN CHOOSE m \in same_tree : TRUE
        ELSE TrailingMatch(raw_parts, n - 1, includer_rel, F)

\* step 5: unique basename
BasenameMatch(raw, F) ==
    LET matches == {r \in F : PathName(r) = PathName(raw)}
    IN  IF Cardinality(matches) = 1 THEN CHOOSE m \in matches : TRUE ELSE None

\* resolve_include(raw, includer_rel, files, root); F is the key set
resolve_include(raw, includer_rel, F) ==
    LET normed   == RelativeCandidate(raw, includer_rel)
        stripped == StripDotDot(raw)
        trailing == TrailingMatch(PathParts(raw), Len(PathParts(raw)),
                                  includer_rel, F)
    IN  IF normed \in F THEN normed
        ELSE IF raw \in F THEN raw
        ELSE IF stripped \in F THEN stripped
        ELSE IF trailing # None THEN trailing
        ELSE BasenameMatch(raw, F)

----------------------------------------------------------------------------
(* dead_file_finder.py : find_entry_point                                  *)

\* min(matches, key=len): the first of the shortest, in list order
FirstShortest(matches) ==
    LET i == CHOOSE i \in DOMAIN matches :
                 /\ \A j \in DOMAIN matches : Len(matches[i]) <= Len(matches[j])
                 /\ \A j \in 1..(i - 1) : Len(matches[j]) > Len(matches[i])
    IN  matches[i]

\* [r for r in files if Path(r).name == name], then one / shortest / nothing
PickByName(F, name) ==
    LET HasName(r) == PathName(r) = name
        matches    == SelectSeq(F, HasName)
    IN  IF Len(matches) = 1 THEN matches[1]
        ELSE IF matches # <<>> THEN FirstShortest(matches)
        ELSE None

\* the loop over MAIN_CANDIDATES, entered at index i
RECURSIVE AutoDetect(_, _)
AutoDetect(F, i) ==
    IF i > Len(MAIN_CANDIDATES) THEN None
    ELSE IF PickByName(F, MAIN_CANDIDATES[i]) # None
    THEN PickByName(F, MAIN_CANDIDATES[i])
    ELSE AutoDetect(F, i + 1)

\* find_entry_point(files, hint); F is the key list in dict order
find_entry_point(F, hint) ==
    IF hint # None /\ hint \in Range(F) THEN hint
    ELSE IF hint # None /\ PickByName(F, PathName(hint)) # None
    THEN PickByName(F, PathName(hint))
    ELSE AutoDetect(F, 1)

----------------------------------------------------------------------------
(* dead_file_finder.py : parse_includes, build_dependency_graph            *)

\* parse_includes: (literal, line number) of every include line of file f
parse_includes(f) == [i \in DOMAIN content[f] |-> <<content[f][i], i>>]

\* BuildOne keeping included_by free of repeated includers
BuildOneReverseOnce(g, rel_path, raw, lineno, F) ==
    LET resolved == resolve_include(raw, rel_path, F)
    IN  IF resolved # None
        THEN [g EXCEPT !.deps[rel_path] = Append(@, resolved),
                       !.inc_by[resolved] =
                           IF \E i \in DOMAIN @ : @[i] = rel_path THEN @
                           ELSE Append(@, rel_path)]
        ELSE [g EXCEPT !.broken = Append(@, [includer    |-> rel_path,
                                             raw_include |-> raw,
                                             line_number |-> lineno])]

\* the body of the inner loop for one raw include of rel_path
BuildOne(g, rel_path, raw, lineno, F) ==
    LET resolved == resolve_include(raw, rel_path, F)
    IN  IF resolved # None
        THEN [g EXCEPT !.deps[rel_path] = Append(@, resolved),
                       !.inc_by[resolved] = Append(@, rel_path)]
        ELSE [g EXCEPT !.broken = Append(@, [includer    |-> rel_path,
                                             raw_include |-> raw,
                                             line_number |-> lineno])]

\* BuildFile with an unresolved include ending the file's loop
RECURSIVE BuildFileStopAtBroken(_, _, _, _)
BuildFileStopAtBroken(g, rel_path, i, F) ==
    LET incs == parse_includes(rel_path)
    IN  IF i > Len(incs) THEN g
        ELSE IF resolve_include(incs[i][1], rel_path, F) = None
        THEN BuildOne(g, rel_path, incs[i][1], incs[i][2], F)
        ELSE BuildFileStopAtBroken(
                 BuildOne(g, rel_path, incs[i][1], incs[i][2], F),
                 rel_path, i + 1, F)

\* the inner loop over raw_includes of rel_path, entered at index i
RECURSIVE BuildFile(_, _, _, _)
BuildFile(g, rel_path, i, F) ==
    LET incs == parse_includes(rel_path)
    IN  IF i > Len(incs) THEN g
        ELSE BuildFile(BuildOne(g, rel_path, incs[i][1], incs[i][2], F),
                       rel_path, i + 1, F)

\* the outer loop over files.items(), entered at index k
RECURSIVE BuildAll(_, _)
BuildAll(g, k) ==
    IF k > Len(files) THEN g
    ELSE BuildAll(BuildFile(g, files[k], 1, Keys), k + 1)

EmptyGraph ==
    [deps   |-> [f \in Keys |-> <<>>],
     inc_by |-> [f \in Keys |-> <<>>],
     broken |-> <<>>]

----------------------------------------------------------------------------
(* dead_file_finder.py : walk_reachability                                 *)

\* Visit leaving files[x].depth as it was
VisitKeepsDepth(w, x, d) ==
    [w EXCEPT !.visited      = @ \cup {x},
              !.reachable[x] = TRUE,
              !.queue        = Append(@, <<x, d>>),
              !.enq[x]       = @ + 1]

\* visited.add(x); files[x].reachable = True; files[x].depth = d;
\* queue.append((x, d))
Visit(w, x, d) ==
    [w EXCEPT !.visited      = @ \cup {x},
              !.reachable[x] = TRUE,
              !.depth[x]     = d,
              !.queue        = Append(@, <<x, d>>),
              !.enq[x]       = @ + 1]

\* the loop over entry_points, entered at index i
RECURSIVE SeedEntries(_, _, _)
SeedEntries(w, entries, i) ==
    IF i > Len(entries) THEN w
    ELSE SeedEntries(IF entries[i] \in Keys
                     THEN [Visit(w, entries[i], 0)
                              EXCEPT !.is_entry[entries[i]] = TRUE]
                     ELSE w,
                     entries, i + 1)

\* for dep in node.resolved_deps, entered at index i; d is depth + 1
RECURSIVE FollowDeps(_, _, _, _)
FollowDeps(w, deps, i, d) ==
    IF i > Len(deps) THEN w
    ELSE FollowDeps(IF deps[i] \notin w.visited THEN Visit(w, deps[i], d)
                    ELSE w,
                    deps, i + 1, d)

\* f'{dir_prefix}/{stem}{ext}' or f'{stem}{ext}'
SiblingName(current, ext) ==
    LET stem       == PathStem(current)
        dir_prefix == PathParent(current)
    IN  IF dir_prefix # <<>> /\ dir_prefix # <<".">>
        THEN dir_prefix \o <<"/">> \o stem \o ext
        ELSE stem \o ext

\* NewSiblings with the pairing loop running over HEADER_EXTENSIONS only
NewSiblingsHeadersOnly(current, seen) ==
    {s \in {SiblingName(current, ext) : ext \in HEADER_EXTENSIONS} :
        s # current /\ s \in Keys /\ s \notin seen}

\* the siblings the pairing loop appends, given the visited set it starts with
NewSiblings(current, seen) ==
    {s \in {SiblingName(current, ext) : ext \in ALL_EXTENSIONS} :
        s # current /\ s \in Keys /\ s \notin seen}

\* the pairing loop visiting the new siblings in the order sibs
RECURSIVE PairSiblings(_, _, _, _)
PairSiblings(w, sibs, i, d) ==
    IF i > Len(sibs) THEN w
    ELSE PairSiblings(Visit(w, sibs[i], d), sibs, i + 1, d)

\* PopLeft as queue.pop(): the newest item first
PopRight(q) == [item |-> q[Len(q)], rest |-> SubSeq(q, 1, Len(q) - 1)]

\* PopLeft as queue[0]: the item is read and stays in the queue
PopLeftPeek(q) == [item |-> Head(q), rest |-> q]

\* queue.popleft()
PopLeft(q) == [item |-> Head(q), rest |-> Tail(q)]

WalkState ==
    [visited |-> visited, reachable |-> reachable, depth |-> depth,
     queue |-> queue, enq |-> enq_count, is_entry |-> is_entry]

SetWalkState(w) ==
    /\ visited'   = w.visited
    /\ reachable' = w.reachable
    /\ depth'     = w.depth
    /\ queue'     = w.queue
    /\ enq_count' = w.enq
    /\ is_entry'  = w.is_entry

----------------------------------------------------------------------------
(* check_circular.py : scan_project                                        *)

\* the glob patterns '**/*.h', ... in the order scan_project runs them
CC_PATTERNS ==
    << <<".", "h">>, <<".", "h", "p", "p">>, <<".", "h", "x", "x">>,
       <<".", "c", "p", "p">>, <<".", "c", "c">>, <<".", "c", "x", "x">> >>

\* the index of the pattern whose glob yields file f, 0 when none does
PatternOf(f) ==
    IF \E i \in DOMAIN CC_PATTERNS : EndsWith(PathName(f), CC_PATTERNS[i])
    THEN CHOOSE i \in DOMAIN CC_PATTERNS : EndsWith(PathName(f), CC_PATTERNS[i])
    ELSE 0

\* the files the globs yield
Discovered(D) == {f \in D : PatternOf(f) # 0}

\* the orders scan_project can meet them in: pattern by pattern, and in any
\* order within one pattern
\* the directory of path f, as its parts
DirParts(f) == SubSeq(PathParts(f), 1, Len(PathParts(f)) - 1)

\* directory d is directory e or lies above it
DirAbove(d, e) == Len(d) <= Len(e) /\ SubSeq(e, 1, Len(d)) = d

\* the longest directory that holds both f and g
CommonDir(f, g) ==
    LET n == CHOOSE n \in 0..Len(DirParts(f)) :
                 /\ DirAbove(SubSeq(DirParts(f), 1, n), DirParts(g))
                 /\ \A k \in (n + 1)..Len(DirParts(f)) :
                        ~DirAbove(SubSeq(DirParts(f), 1, k), DirParts(g))
    IN  SubSeq(DirParts(f), 1, n)

\* the recursive wildcard of pathlib walks top-down: the files of a
\* directory come before those of its sub-directories and each sub-tree is
\* listed in one run; the order within a directory listing is the file
\* system's.  walk[i] names the walk that yields q[i].
TopDown(q, walk) ==
    /\ \A i, j \in DOMAIN q :
           (i < j /\ walk[i] = walk[j]) =>
               ~(DirAbove(DirParts(q[j]), DirParts(q[i]))
                 /\ DirParts(q[j]) # DirParts(q[i]))
    /\ \A i, j, k \in DOMAIN q :
           (i < j /\ j < k /\ walk[i] = walk[j] /\ walk[j] = walk[k]) =>
               DirAbove(CommonDir(q[i], q[k]), DirParts(q[j]))

\* root.rglob('*'): one top-down walk over the files S
WalkOrders(S) ==
    {q \in Orderings(S) : TopDown(q, [i \in DOMAIN q |-> 1])}

GlobOrders(D) ==
    {q \in Orderings(Discovered(D)) :
        /\ \A i, j \in DOMAIN q :
               i < j => PatternOf(q[i]) <= PatternOf(q[j])
        /\ TopDown(q, [i \in DOMAIN q |-> PatternOf(q[i])])}

\* m[k] = v on a dict
Put(m, k, v) == [x \in DOMAIN m \cup {k} |-> IF x = k THEN v ELSE m[x]]

\* ScanOne storing the basename key for every file
ScanOneOverwrites(m, filepath) ==
    Put(Put(m, filepath, filepath), PathName(filepath), filepath)

\* the loop body for one filepath
ScanOne(m, filepath) ==
    LET m1 == Put(m, filepath, filepath)
    IN  IF PathName(filepath) \notin DOMAIN m1
        THEN Put(m1, PathName(filepath), filepath)
        ELSE m1

\* scan_project over the files in order q, entered at index i
RECURSIVE ScanFrom(_, _, _)
ScanFrom(m, q, i) ==
    IF i > Len(q) THEN m ELSE ScanFrom(ScanOne(m, q[i]), q, i + 1)

----------------------------------------------------------------------------
(* check_circular.py : resolve_include_path                                *)

\* a resolved path that lies outside the project root
Outside == <<"/">>

\* Path.resolve() on parts below the root: ".." removes the part before it
RECURSIVE Collapse(_, _)
Collapse(done, parts) ==
    IF parts = <<>> THEN done
    ELSE IF parts[1] = <<".", ".">>
    THEN IF done = <<>> THEN <<Outside>>
         ELSE Collapse(SubSeq(done, 1, Len(done) - 1), Tail(parts))
    ELSE Collapse(Append(done, parts[1]), Tail(parts))

\* (base / include_path).resolve(), base given by its parts
ResolvedPath(base_parts, include_path) ==
    LET parts == Collapse(<<>>, base_parts \o PathParts(include_path))
    IN  IF parts = <<Outside>> THEN Outside
        ELSE IF parts = <<>> THEN <<".">>
        ELSE JoinSlash(parts)

\* Path.exists(): a file of the tree, a directory of the tree, or the root;
\* nothing outside the root carries the names the includes use
Exists(p, D) ==
    /\ p # Outside
    /\ \/ p \in D
       \/ p = <<".">>
       \/ \E f \in D : StartsWith(f, p \o <<"/">>)

\* s.lstrip(chars)
RECURSIVE LStrip(_, _)
LStrip(s, chars) ==
    IF s # <<>> /\ s[1] \in chars THEN LStrip(Tail(s), chars) ELSE s

\* the parts of from_file.parent
ParentParts(from_file) ==
    LET parts == PathParts(from_file)
    IN  SubSeq(parts, 1, Len(parts) - 1)

\* resolve_include_path(include_path, from_file); m is file_map, D the disk
resolve_include_path(include_path, from_file, m, D) ==
    LET basename         == PathName(include_path)
        relative_to_file == ResolvedPath(ParentParts(from_file), include_path)
        relative_to_root == ResolvedPath(<<>>, include_path)
        cleaned_path     == LStrip(LStrip(include_path, {".", "/"}),
                                   {".", "/"})
        by_name          == {k \in DOMAIN m : PathName(m[k]) = basename}
    IN  IF basename \in DOMAIN m THEN m[basename]
        ELSE IF Exists(relative_to_file, D) THEN relative_to_file
        ELSE IF Exists(relative_to_root, D) THEN relative_to_root
        ELSE IF cleaned_path \in DOMAIN m THEN m[cleaned_path]
        ELSE IF by_name # {} THEN m[CHOOSE k \in by_name : TRUE]
        ELSE None

----------------------------------------------------------------------------
(* check_circular.py : build_dependency_graph                              *)

\* extract_includes(filepath): the literals of the file's include lines
extract_includes(filepath) == content[filepath]

\* the set include_graph[filepath] after the loop over its includes
TargetsOf(filepath, m, D) ==
    {resolve_include_path(extract_includes(filepath)[i], filepath, m, D) :
        i \in DOMAIN extract_includes(filepath)} \ {None}

\* include_graph after build_dependency_graph: a key for every file with at
\* least one resolved include
BuiltGraph(m, D) ==
    LET sources == {f \in Range(m) : TargetsOf(f, m, D) # {}}
    IN  [f \in sources |-> TargetsOf(f, m, D)]

----------------------------------------------------------------------------
(* check_circular.py : find_cycles_from_node, find_all_cycles              *)

\* self.include_graph.get(start, [])
Neighbors(G, start) == IF start \in DOMAIN G THEN G[start] ELSE {}

\* path.index(start)
IndexOf(path, x) ==
    CHOOSE i \in DOMAIN path :
        path[i] = x /\ \A j \in 1..(i - 1) : path[j] # x

\* ExtractCycle as path + [start]: the walk into the cycle is kept
ExtractCycleWholePath(path, start) == path \o <<start>>

\* cycle = path[cycle_start_idx:] + [start]
ExtractCycle(path, start) ==
    SubSeq(path, IndexOf(path, start), Len(path)) \o <<start>>

\* find_cycles_from_node(start, visited, path) on graph G; ord is the order
\* in which this run iterates the neighbour sets; ExploreFrom is the loop
\* over the neighbours, entered at index i of ord
RECURSIVE find_cycles_from_node(_, _, _, _, _)
RECURSIVE ExploreFrom(_, _, _, _, _, _)
find_cycles_from_node(G, start, seen, path, ord) ==
    IF start \in seen
    THEN IF start \in Range(path) THEN <<ExtractCycle(path, start)>> ELSE <<>>
    ELSE ExploreFrom(G, start, seen \cup {start}, Append(path, start), ord, 1)

\* ExploreFrom as `cycles = ...` for `cycles.extend(...)`: only the cycles
\* of the neighbour iterated last are kept
ExploreFromKeepsLast(G, start, seen, path, ord, i) ==
    LET idx == {j \in DOMAIN ord : j >= i /\ ord[j] \in Neighbors(G, start)}
    IN  IF idx = {} THEN <<>>
        ELSE find_cycles_from_node(
                 G, ord[CHOOSE j \in idx : \A k \in idx : k <= j],
                 seen, path, ord)

ExploreFrom(G, start, seen, path, ord, i) ==
    IF i > Len(ord) THEN <<>>
    ELSE (IF ord[i] \in Neighbors(G, start)
          THEN find_cycles_from_node(G, ord[i], seen, path, ord)
          ELSE <<>>)
         \o ExploreFrom(G, start, seen, path, ord, i + 1)

\* the code points of the characters that occur in paths, ascending
AsciiOrder ==
    << ".", "/",
       "A", "B", "C", "D", "E", "F", "G", "H", "I", "J", "K", "L", "M",
       "N", "O", "P", "Q", "R", "S", "T", "U", "V", "W", "X", "Y", "Z", "_",
       "a", "b", "c", "d", "e", "f", "g", "h", "i", "j", "k", "l", "m",
       "n", "o", "p", "q", "r", "s", "t", "u", "v", "w", "x", "y", "z" >>

Code(c) == CHOOSE i \in DOMAIN AsciiOrder : AsciiOrder[i] = c

\* str(a) < str(b)
StrLess(a, b) ==
    \E k \in 1..(Len(a) + 1) :
        /\ k <= Len(b)
        /\ \A j \in 1..(k - 1) : a[j] = b[j]
        /\ (k = Len(a) + 1 \/ Code(a[k]) < Code(b[k]))

\* cycle.index(min(cycle, key=lambda p: str(p)))
MinIndex(cycle) ==
    CHOOSE i \in DOMAIN cycle :
        /\ \A j \in DOMAIN cycle : ~StrLess(cycle[j], cycle[i])
        /\ \A j \in 1..(i - 1) : cycle[j] # cycle[i]

\* Normalize as cycle[min_idx:] + cycle[:min_idx]: the closing member stays
NormalizeKeepsClosing(cycle) ==
    LET i == MinIndex(cycle)
    IN  SubSeq(cycle, i, Len(cycle)) \o SubSeq(cycle, 1, i - 1)

\* normalized = tuple(cycle[min_idx:-1] + cycle[:min_idx])
Normalize(cycle) ==
    LET i == MinIndex(cycle)
    IN  SubSeq(cycle, i, Len(cycle) - 1) \o SubSeq(cycle, 1, i - 1)

\* RetainCycles without the `normalized not in checked_cycles` test
RECURSIVE RetainCyclesUnchecked(_, _, _)
RetainCyclesUnchecked(st, cycles, i) ==
    IF i > Len(cycles) THEN st
    ELSE RetainCyclesUnchecked(
             IF cycles[i] = <<>> THEN st
             ELSE [checked |-> st.checked \cup {Normalize(cycles[i])},
                   all     |-> Append(st.all, Normalize(cycles[i]))],
             cycles, i + 1)

\* the loop `for cycle in cycles`, entered at index i; st holds
\* checked_cycles and all_cycles
RECURSIVE RetainCycles(_, _, _)
RetainCycles(st, cycles, i) ==
    IF i > Len(cycles) THEN st
    ELSE LET normalized == Normalize(cycles[i])
         IN  RetainCycles(
                 IF cycles[i] = <<>> \/ normalized \in st.checked THEN st
                 ELSE [checked |-> st.checked \cup {normalized},
                       all     |-> Append(st.all, normalized)],
                 cycles, i + 1)

----------------------------------------------------------------------------
(* The project trees, include literals and command lines the runs of       *)
(* dead_file_finder.py are drawn from.                                     *)

MainCpp == <<"m", "a", "i", "n", ".", "c", "p", "p">>
AWh     == <<"a", "/", "W", ".", "h">>
AWcpp   == <<"a", "/", "W", ".", "c", "p", "p">>
AXh     == <<"a", "/", "X", ".", "h">>
BWh     == <<"b", "/", "W", ".", "h">>

LitWh     == <<"W", ".", "h">>
LitAXh    == <<"a", "/", "X", ".", "h">>
LitUpMain == <<".", ".", "/", "m", "a", "i", "n", ".", "c", "p", "p">>
LitGhost  == <<"x", "/", "G", ".", "h">>
LitXh     == <<"X", ".", "h">>
LitZz     == <<"z", "z", ".", "h">>

\* the files dict after discover_files, keys in insertion order
Trees ==
    { <<MainCpp, AWh, AWcpp, AXh>>,
      <<BWh, AWcpp, AWh>>,
      <<>> }

Literals == {LitWh, LitAXh, LitUpMain, LitGhost}

\* args.entry and args.extra_entry of the runs
CommandLines ==
    { [entry |-> None,  extra |-> <<>>],
      [entry |-> LitXh, extra |-> <<LitWh>>],
      [entry |-> None,  extra |-> <<MainCpp, AXh>>],
      [entry |-> LitXh, extra |-> <<LitZz>>] }

\* most include directives in one project tree of dead_file_finder.py
MaxIncludes == 3

\* the lists of (file, literal) directives of a tree, at most MaxIncludes
Directives(F, L) ==
    UNION {[1..n -> F \X L] : n \in 0..MaxIncludes}

\* the literals that the directives ds put in file f, in order
RECURSIVE ContentOf(_, _)
ContentOf(ds, f) ==
    IF ds = <<>> THEN <<>>
    ELSE IF ds[1][1] = f THEN <<ds[1][2]>> \o ContentOf(Tail(ds), f)
    ELSE ContentOf(Tail(ds), f)

----------------------------------------------------------------------------
(* dead_file_finder.py : main                                              *)

ResIdle == /\ res_in = <<>> /\ res_out = <<>>

CycIdle ==
    /\ disk = {}
    /\ file_map = <<>>
    /\ include_graph = <<>>
    /\ todo = {}
    /\ checked_cycles = {}
    /\ all_cycles = <<>>

\* the mode switches when none is given
NoSwitches ==
    [suggest_remove |-> FALSE, move_to_hive |-> FALSE, dry_run |-> FALSE]

OutIdle ==
    /\ root_is_dir = TRUE
    /\ args = NoSwitches
    /\ moved = <<>>
    /\ del_lines = <<>>
    /\ aggs = <<>>
    /\ notes = <<>>

ExtIdle ==
    /\ src_lines = <<>>
    /\ ext_pos = 0
    /\ in_comment_block = FALSE
    /\ includes = <<>>
    /\ results = <<>>

\* the state after discover_files: fresh FileNodes, nothing resolved
Init ==
    /\ pc = "discovered"
    /\ files \in Trees
    /\ \E ds \in Directives(Range(files), Literals) :
           content = [f \in Range(files) |-> ContentOf(ds, f)]
    /\ \E cl \in CommandLines :
           /\ entry_arg = cl.entry
           /\ extra_arg = cl.extra
    /\ entry_points = <<>>
    /\ resolved_deps = [f \in Range(files) |-> <<>>]
    /\ included_by = [f \in Range(files) |-> <<>>]
    /\ broken = <<>>
    /\ reachable = [f \in Range(files) |-> FALSE]
    /\ depth = [f \in Range(files) |-> -1]
    /\ is_entry = [f \in Range(files) |-> FALSE]
    /\ queue = <<>>
    /\ visited = {}
    /\ enq_count = [f \in Range(files) |-> 0]
    /\ ResIdle
    /\ OutIdle
    /\ ExtIdle
    /\ CycIdle

\* the loop over args.extra_entry, entered at index i
RECURSIVE ExtraEntries(_, _, _)
ExtraEntries(eps, extras, i) ==
    IF i > Len(extras) THEN eps
    ELSE LET found == find_entry_point(files, extras[i])
         IN  ExtraEntries(IF found # None THEN Append(eps, found) ELSE eps,
                          extras, i + 1)

\* `if not files: sys.exit(1)`
NoFiles ==
    /\ pc = "discovered"
    /\ files = <<>>
    /\ pc' = "exit1"
    /\ UNCHANGED <<dffVars, resVars, cycVars,
                   outVars, extVars>>

\* LocateEntryPoints without the exit: the run goes on with no entry point
LocateEntryPointsNoExit ==
    /\ pc = "discovered"
    /\ files # <<>>
    /\ LET main_entry == find_entry_point(files, entry_arg)
           first      == IF main_entry # None THEN <<main_entry>> ELSE <<>>
       IN  entry_points' = ExtraEntries(first, extra_arg, 1)
    /\ pc' = "entries"
    /\ UNCHANGED <<files, content, entry_arg, extra_arg, resolved_deps,
                   included_by, broken, reachable, depth, is_entry, queue,
                   visited, enq_count, resVars, cycVars,
                   outVars, extVars>>

\* phase 2: entry points; `if not entry_points: sys.exit(1)`
LocateEntryPoints ==
    /\ pc = "discovered"
    /\ files # <<>>
    /\ LET main_entry == find_entry_point(files, entry_arg)
           first      == IF main_entry # None THEN <<main_entry>> ELSE <<>>
           eps        == ExtraEntries(first, extra_arg, 1)
       IN  /\ entry_points' = eps
           /\ pc' = IF eps = <<>> THEN "exit1" ELSE "entries"
    /\ UNCHANGED <<files, content, entry_arg, extra_arg, resolved_deps,
                   included_by, broken, reachable, depth, is_entry, queue,
                   visited, enq_count, resVars, cycVars,
                   outVars, extVars>>

\* phase 3: build_dependency_graph(files, root)
BuildGraph ==
    /\ pc = "entries"
    /\ LET g == BuildAll(EmptyGraph, 1)
       IN  /\ resolved_deps' = g.deps
           /\ included_by' = g.inc_by
           /\ broken' = g.broken
    /\ pc' = "built"
    /\ UNCHANGED <<files, content, entry_arg, extra_arg, entry_points,
                   reachable, depth, is_entry, queue, visited, enq_count,
                   resVars, cycVars,
                   outVars, extVars>>

\* phase 4, walk_reachability: the loop over entry_points
WalkSeed ==
    /\ pc = "built"
    /\ SetWalkState(SeedEntries(WalkState, entry_points, 1))
    /\ pc' = "bfs"
    /\ UNCHANGED <<files, content, entry_arg, extra_arg, entry_points,
                   resolved_deps, included_by, broken, resVars, cycVars,
                   outVars, extVars>>

\* walk_reachability: one iteration of `while queue`
WalkStep ==
    /\ pc = "bfs"
    /\ queue # <<>>
    /\ LET popped  == PopLeft(queue)
           current == popped.item[1]
           d       == popped.item[2]
           w0      == [WalkState EXCEPT !.queue = popped.rest]
           w1      == FollowDeps(w0, resolved_deps[current], 1, d + 1)
       IN  \E sibs \in Orderings(NewSiblings(current, w1.visited)) :
               SetWalkState(PairSiblings(w1, sibs, 1, d + 1))
    /\ UNCHANGED <<pc, files, content, entry_arg, extra_arg, entry_points,
                   resolved_deps, included_by, broken, resVars, cycVars,
                   outVars, extVars>>

\* walk_reachability: the queue is empty, `return len(visited)`
WalkReturn ==
    /\ pc = "bfs"
    /\ queue = <<>>
    /\ pc' = "walked"
    /\ UNCHANGED <<dffVars, resVars, cycVars,
                   outVars, extVars>>

Next ==
    \/ NoFiles
    \/ LocateEntryPoints
    \/ BuildGraph
    \/ WalkSeed
    \/ WalkStep
    \/ WalkReturn

Spec == Init /\ [][Next]_vars

----------------------------------------------------------------------------
(* check_circular.py : main (scan, build, find_all_cycles)                 *)

CAh   == <<"A", ".", "h">>
CBh   == <<"b", "/", "B", ".", "h">>
CCcpp == <<"b", "/", "C", ".", "c", "p", "p">>
CDinl == <<"b", "/", "D", ".", "i", "n", "l">>
RBh   == <<"B", ".", "h">>
SBh   == <<"c", "/", "B", ".", "h">>
SAh   == <<"c", "/", "A", ".", "h">>

LitAh   == <<"A", ".", "h">>
LitBh   == <<"B", ".", "h">>
LitCcpp == <<"C", ".", "c", "p", "p">>
LitDinl == <<"D", ".", "i", "n", "l">>

\* most include directives in one project tree of check_circular.py
MaxCycleIncludes == 3

\* the lists of (file, literal) directives of a tree, at most
\* MaxCycleIncludes
CycDirectives(F, L) ==
    UNION {[1..n -> F \X L] : n \in 0..MaxCycleIncludes}

\* the files under the project root of the runs
CCTrees == { {CAh, CBh, CCcpp, CDinl}, {RBh, SBh, SAh}, {CBh, SBh, SAh} }

CCLiterals == {LitAh, LitBh, LitCcpp, LitDinl}

DffIdle ==
    /\ files = <<>>
    /\ entry_arg = None
    /\ extra_arg = <<>>
    /\ entry_points = <<>>
    /\ resolved_deps = <<>>
    /\ included_by = <<>>
    /\ broken = <<>>
    /\ reachable = <<>>
    /\ depth = <<>>
    /\ is_entry = <<>>
    /\ queue = <<>>
    /\ visited = {}
    /\ enq_count = <<>>

\* CircularIncludeChecker.__init__
CycInit ==
    /\ pc = "cc_init"
    /\ root_is_dir \in BOOLEAN
    /\ disk \in (IF root_is_dir THEN CCTrees ELSE {{}})
    /\ \E ds \in CycDirectives(Discovered(disk), CCLiterals) :
           content = [f \in Discovered(disk) |-> ContentOf(ds, f)]
    /\ file_map = <<>>
    /\ include_graph = <<>>
    /\ todo = {}
    /\ checked_cycles = {}
    /\ all_cycles = <<>>
    /\ DffIdle
    /\ ResIdle
    /\ args = NoSwitches
    /\ moved = <<>>
    /\ del_lines = <<>>
    /\ aggs = <<>>
    /\ notes = <<>>
    /\ ExtIdle

\* scan_project
ScanProject ==
    /\ pc = "cc_init"
    /\ \E q \in GlobOrders(disk) : file_map' = ScanFrom(<<>>, q, 1)
    /\ pc' = "cc_scanned"
    /\ UNCHANGED <<dffVars, resVars, disk, include_graph, todo,
                   checked_cycles, all_cycles,
                   outVars, extVars>>

\* build_dependency_graph
CCBuildGraph ==
    /\ pc = "cc_scanned"
    /\ include_graph' = BuiltGraph(file_map, disk)
    /\ pc' = "cc_built"
    /\ UNCHANGED <<dffVars, resVars, disk, file_map, todo, checked_cycles,
                   all_cycles,
                   outVars, extVars>>

\* find_all_cycles: all_cycles = [], checked_cycles = set(), and the loop
\* over include_graph.keys() begins
FindAllCyclesBegin ==
    /\ pc = "cc_built"
    /\ todo' = DOMAIN include_graph
    /\ checked_cycles' = {}
    /\ all_cycles' = <<>>
    /\ pc' = "cc_search"
    /\ UNCHANGED <<dffVars, resVars, disk, file_map, include_graph,
                   outVars, extVars>>

\* the nodes whose order of iteration in neighbour sets matters
GraphTargets == UNION {include_graph[f] : f \in DOMAIN include_graph}

\* CyclesFromNode reading the neighbours as self.include_graph[start]: the
\* defaultdict gains a key for every node the search looks up
CyclesFromNodeIndexing ==
    /\ pc = "cc_search"
    /\ \E node \in todo :
           /\ todo' = todo \ {node}
           /\ \E ord \in Orderings(GraphTargets) :
                  LET cycles == find_cycles_from_node(include_graph, node,
                                                      {}, <<>>, ord)
                      st     == RetainCycles([checked |-> checked_cycles,
                                              all     |-> all_cycles],
                                             cycles, 1)
                  IN  /\ checked_cycles' = st.checked
                      /\ all_cycles' = st.all
    /\ include_graph' = [f \in DOMAIN include_graph \cup GraphTargets |->
                             Neighbors(include_graph, f)]
    /\ UNCHANGED <<pc, dffVars, resVars, disk, file_map,
                   outVars, extVars>>

\* find_all_cycles: one iteration of `for node in self.include_graph.keys()`
CyclesFromNode ==
    /\ pc = "cc_search"
    /\ \E node \in todo :
           /\ todo' = todo \ {node}
           /\ \E ord \in Orderings(GraphTargets) :
                  LET cycles == find_cycles_from_node(include_graph, node,
                                                      {}, <<>>, ord)
                      st     == RetainCycles([checked |-> checked_cycles,
                                              all     |-> all_cycles],
                                             cycles, 1)
                  IN  /\ checked_cycles' = st.checked
                      /\ all_cycles' = st.all
    /\ UNCHANGED <<pc, dffVars, resVars, disk, file_map, include_graph,
                   outVars, extVars>>

\* find_all_cycles: self.all_cycles = all_cycles; return
FindAllCyclesEnd ==
    /\ pc = "cc_search"
    /\ todo = {}
    /\ pc' = "cc_done"
    /\ UNCHANGED <<dffVars, resVars, cycVars,
                   outVars, extVars>>

\* main: `sys.exit(1 if checker.all_cycles else 0)`
CCExit ==
    /\ pc = "cc_done"
    /\ pc' = IF all_cycles # <<>> THEN "cc_exit1" ELSE "cc_exit0"
    /\ UNCHANGED <<dffVars, resVars, cycVars, outVars, extVars>>

CycNext ==
    \/ ScanProject
    \/ CCBuildGraph
    \/ FindAllCyclesBegin
    \/ CyclesFromNode
    \/ FindAllCyclesEnd
    \/ CCExit

SpecCycle == CycInit /\ [][CycNext]_vars

----------------------------------------------------------------------------
(* The two resolvers applied to one include of one file of a tree          *)

UFh  == <<"a", "/", "b", "/", "F", ".", "h">>
UABh == <<"a", "/", "B", ".", "h">>
UCBh == <<"c", "/", "B", ".", "h">>
URBh == <<"B", ".", "h">>
UAXh == <<"a", "/", "x", "/", "B", ".", "h">>
UCXh == <<"c", "/", "x", "/", "B", ".", "h">>
UFBh == <<"a", "/", "F", "B", ".", "h">>

UAPh == <<"a", "/", "p", "/", "x", "/", "B", ".", "h">>
UBPh == <<"b", "/", "p", "/", "x", "/", "B", ".", "h">>

ResUniverse == {UFh, UABh, UCBh, URBh, UAXh, UCXh, UFBh, UAPh, UBPh}

LitUpBh  == <<".", ".", "/", "B", ".", "h">>
LitDotBh == <<".", "/", "B", ".", "h">>
LitXBh   == <<"x", "/", "B", ".", "h">>
LitUpXBh == <<".", ".", "/", "x", "/", "B", ".", "h">>

LitPXBh  == <<"p", "/", "x", "/", "B", ".", "h">>

ResLiterals == {LitBh, LitUpBh, LitDotBh, LitXBh, LitUpXBh, LitPXBh}

\* most files in a tree the resolvers are applied to
MaxTreeFiles == 3

ResTrees ==
    {T \in SUBSET ResUniverse : T # {} /\ Cardinality(T) <= MaxTreeFiles}

\* a discovered tree (files in discovery order) and one include of one file
ResInit ==
    /\ pc = "res_init"
    /\ disk \in ResTrees
    /\ files \in GlobOrders(disk)
    /\ res_in \in [raw : ResLiterals, includer : disk]
    /\ res_out = <<>>
    /\ file_map = <<>>
    /\ content = <<>>
    /\ entry_arg = None
    /\ extra_arg = <<>>
    /\ entry_points = <<>>
    /\ resolved_deps = <<>>
    /\ included_by = <<>>
    /\ broken = <<>>
    /\ reachable = <<>>
    /\ depth = <<>>
    /\ is_entry = <<>>
    /\ queue = <<>>
    /\ visited = {}
    /\ enq_count = <<>>
    /\ include_graph = <<>>
    /\ todo = {}
    /\ checked_cycles = {}
    /\ all_cycles = <<>>
    /\ OutIdle
    /\ ExtIdle

\* dead_file_finder.py: resolve_include(raw, includer, files, root)
ApplyResolveInclude ==
    /\ pc = "res_init"
    /\ res_out' = [dff |-> resolve_include(res_in.raw, res_in.includer, Keys)]
    /\ pc' = "res_dff"
    /\ UNCHANGED <<dffVars, res_in, cycVars,
                   outVars, extVars>>

\* check_circular.py: scan_project, then resolve_include_path(raw, includer)
ApplyResolveIncludePath ==
    /\ pc = "res_dff"
    /\ file_map' = ScanFrom(<<>>, files, 1)
    /\ res_out' = [dff |-> res_out.dff,
                   cc  |-> resolve_include_path(res_in.raw, res_in.includer,
                                                file_map', disk)]
    /\ pc' = "res_done"
    /\ UNCHANGED <<dffVars, res_in, disk, include_graph, todo,
                   checked_cycles, all_cycles,
                   outVars, extVars>>

ResNext == ApplyResolveInclude \/ ApplyResolveIncludePath

SpecResolve == ResInit /\ [][ResNext]_vars

----------------------------------------------------------------------------
(* Reachability: what walk_reachability is to compute                      *)

\* a resolved include edge a -> b
IncludeEdge(a, b) ==
    \E i \in DOMAIN resolved_deps[a] : resolved_deps[a][i] = b

\* a and b share directory and filename stem, b has another listed extension
SiblingEdge(a, b) ==
    /\ a # b
    /\ PathParent(a) = PathParent(b)
    /\ PathStem(a) = PathStem(b)
    /\ PathSuffix(b) \in ALL_EXTENSIONS

HopEdge(a, b) == IncludeEdge(a, b) \/ SiblingEdge(a, b)

\* the entry points that are discovered artifacts
EntrySet == Range(entry_points) \cap Keys

\* the artifacts within k hops of an entry point
RECURSIVE Within(_)
Within(k) ==
    IF k = 0 THEN EntrySet
    ELSE LET W == Within(k - 1)
         IN  W \cup {b \in Keys : \E a \in W : HopEdge(a, b)}

Reached == Within(Cardinality(Keys))

\* Layers[k] holds the artifacts within k hops of an entry point
Layers == [k \in 0..Cardinality(Keys) |-> Within(k)]

\* the least number of hops from an entry point to f, L being Layers
HopCount(L, f) ==
    CHOOSE k \in DOMAIN L : f \in L[k] /\ (k = 0 \/ f \notin L[k - 1])

----------------------------------------------------------------------------
(* Graph build of dead_file_finder.py                                      *)

\* the indices of broken entries recorded for file f
BrokenOf(f) == {k \in DOMAIN broken : broken[k].includer = f}

----------------------------------------------------------------------------
(* Cycles: what find_all_cycles is to retain                               *)

\* an edge of the include graph
HasEdge(a, b) == a \in DOMAIN include_graph /\ b \in include_graph[a]

CycleNodes == DOMAIN include_graph \cup GraphTargets

\* the member after position i of a cyclic sequence c
NextIn(c, i) == c[(i % Len(c)) + 1]

\* the elementary cycles of the include graph, as member sequences
ElementaryCycles ==
    {c \in UNION {[1..n -> CycleNodes] : n \in 1..Cardinality(CycleNodes)} :
        /\ \A i, j \in DOMAIN c : i # j => c[i] # c[j]
        /\ \A i \in DOMAIN c : HasEdge(c[i], NextIn(c, i))}

\* c read from its member k + 1 on
Rotated(c, k) == [i \in DOMAIN c |-> c[((i - 1 + k) % Len(c)) + 1]]

IsRotation(r, c) ==
    Len(r) = Len(c) /\ \E k \in 0..(Len(c) - 1) : r = Rotated(c, k)

\* C3: enumeration is exhaustive: for every elementary cycle of the include
\* graph, self-includes and two-file cycles too, find_all_cycles retains a
\* cycle with the same members in the same cyclic order.
C3_EveryCycleRetained ==
    pc = "cc_done" =>
        \A c \in ElementaryCycles :
            \E k \in DOMAIN all_cycles : IsRotation(all_cycles[k], c)

\* a graph with a self-include and a two-file cycle, both retained
C3_Witness ==
    /\ pc = "cc_done"
    /\ \E c \in ElementaryCycles : Len(c) = 1
    /\ \E c \in ElementaryCycles : Len(c) = 2
    /\ Len(all_cycles) >= 2

\* C4: every retained cycle is an elementary cycle: consecutive members and
\* the last member back to the first are edges, and no member occurs twice.
C4_RetainedAreElementary ==
    pc \in {"cc_search", "cc_done"} =>
        \A k \in DOMAIN all_cycles :
            /\ all_cycles[k] # <<>>
            /\ \A i, j \in DOMAIN all_cycles[k] :
                   i # j => all_cycles[k][i] # all_cycles[k][j]
            /\ \A i \in DOMAIN all_cycles[k] :
                   HasEdge(all_cycles[k][i], NextIn(all_cycles[k], i))

\* a retained cycle that the search also enters from a file outside it
C4_Witness ==
    /\ pc = "cc_done"
    /\ \E k \in DOMAIN all_cycles :
           \E n \in DOMAIN include_graph :
               /\ n \notin Range(all_cycles[k])
               /\ \E x \in Range(all_cycles[k]) : HasEdge(n, x)

\* C5: the final list holds no duplicates: no two retained cycles are equal
\* or rotations of one another.
C5_NoDuplicateCycles ==
    pc \in {"cc_search", "cc_done"} =>
        \A j, k \in DOMAIN all_cycles :
            j # k => ~IsRotation(all_cycles[j], all_cycles[k])

\* a retained cycle of two or more files, met from each of its members
C5_Witness ==
    /\ pc = "cc_done"
    /\ \E k \in DOMAIN all_cycles : Len(all_cycles[k]) >= 2

\* the raw cycle of a member sequence: closed back to its first member
Closed(c) == Append(c, c[1])

\* C6: canonicalization is rotation-invariant: the normalization of every
\* rotation of a raw cycle is the same tuple, a rotation of the cycle that
\* starts at the member with the least path string.
C6_RotationInvariant ==
    pc \in {"cc_built", "cc_search", "cc_done"} =>
        \A c \in ElementaryCycles :
            /\ IsRotation(Normalize(Closed(c)), c)
            /\ \A x \in Range(c) :
                   x = Normalize(Closed(c))[1]
                   \/ StrLess(Normalize(Closed(c))[1], x)
            /\ \A k \in 0..(Len(c) - 1) :
                   Normalize(Closed(Rotated(c, k))) = Normalize(Closed(c))

\* a three-file cycle: its raw forms start at each of the three members
C6_Witness ==
    /\ pc = "cc_built"
    /\ \E c \in ElementaryCycles : Len(c) = 3

\* C9: after the graph build every forward and reverse adjacency target is
\* a discovered artifact, in dead_file_finder.py and in check_circular.py.
C9_TargetsDiscovered ==
    /\ pc \in {"built", "bfs", "walked"} =>
           \A f \in Keys :
               /\ Range(resolved_deps[f]) \subseteq Keys
               /\ Range(included_by[f]) \subseteq Keys
    /\ pc \in {"cc_built", "cc_search", "cc_done"} =>
           \A f \in DOMAIN include_graph :
               include_graph[f] \subseteq Range(file_map)

----------------------------------------------------------------------------
(* Resolver priority                                                       *)

\* the path the literal names from the includer's directory, with "." and
\* ".." segments collapsed
RelativeTarget(raw, includer) == ResolvedPath(ParentParts(includer), raw)

HasDotSegment(raw) ==
    \E i \in DOMAIN SplitSlash(raw) :
        SplitSlash(raw)[i] \in {<<".">>, <<".", ".">>}

\* C7: a literal that matches a discovered artifact relative to the
\* includer's directory and a different artifact by basename only resolves
\* to the relative one, in both resolvers.
C7_RelativeBeatsBasename ==
    pc = "res_done" =>
        LET rel == RelativeTarget(res_in.raw, res_in.includer)
        IN  (/\ rel \in disk
             /\ \E o \in disk :
                    o # rel /\ PathName(o) = PathName(res_in.raw))
            => (res_out.dff = rel /\ res_out.cc = rel)

\* C8: when the includer's directory joined with a literal that has "." or
\* ".." segments collapses to a discovered key, resolve_include returns it.
C8_DotDotNormalized ==
    pc \in {"res_dff", "res_done"} =>
        LET rel == RelativeTarget(res_in.raw, res_in.includer)
        IN  (HasDotSegment(res_in.raw) /\ rel \in disk)
            => res_out.dff = rel

----------------------------------------------------------------------------
(* Failure handling of main                                                *)

\* C11: when no entry point resolves, only the reachability phase is
\* aborted: the run ends with a failure status, no artifact is reachable,
\* and the include graph has still been built (every raw include of every
\* file is recorded as an edge or as a broken reference).
C11_GraphBuiltWithoutEntry ==
    (pc = "exit1" /\ files # <<>> /\ entry_points = <<>>) =>
        LET g == BuildAll(EmptyGraph, 1)
        IN  /\ \A f \in Keys : ~reachable[f]
            /\ resolved_deps = g.deps
            /\ included_by = g.inc_by
            /\ broken = g.broken

----------------------------------------------------------------------------
(* Determinism of discovery and graph build                                *)

\* the (file, literal) includes that resolve to nothing under file map m
UnresolvedUnder(m, D) ==
    {fl \in Range(m) \X CCLiterals :
        /\ \E i \in DOMAIN extract_includes(fl[1]) :
               extract_includes(fl[1])[i] = fl[2]
        /\ resolve_include_path(fl[2], fl[1], m, D) = None}

\* C12: whatever order the directory tree is traversed in, scan and graph
\* build over the same tree give the same nodes, the same edges and the
\* same unresolved includes.
C12_TraversalOrderIrrelevant ==
    pc = "cc_built" =>
        \A q \in GlobOrders(disk) :
            LET m == ScanFrom(<<>>, q, 1)
            IN  /\ Range(m) = Range(file_map)
                /\ BuiltGraph(m, disk) = include_graph
                /\ UnresolvedUnder(m, disk) = UnresolvedUnder(file_map, disk)

----------------------------------------------------------------------------
(* dead_file_finder.py : the whole of main, from the root check to the     *)
(* outputs and the exit status                                             *)

DEFAULT_EXCLUDES ==
    { <<"b", "u", "i", "l", "d">>,
      <<"B", "u", "i", "l", "d">>,
      <<".", "g", "i", "t">>,
      <<"t", "h", "i", "r", "d", "_", "p", "a", "r", "t", "y">>,
      <<"e", "x", "t", "e", "r", "n", "a", "l">>,
      <<"d", "e", "p", "s">>,
      <<"n", "o", "d", "e", "_", "m", "o", "d", "u", "l", "e", "s">>,
      <<"_", "_", "p", "y", "c", "a", "c", "h", "e", "_", "_">>,
      <<".", "v", "s">>,
      <<"D", "e", "b", "u", "g">>,
      <<"R", "e", "l", "e", "a", "s", "e">>,
      <<"x", "6", "4">>,
      <<"x", "8", "6">>,
      <<"C", "M", "a", "k", "e", "F", "i", "l", "e", "s">>,
      <<"c", "m", "a", "k", "e", "-", "b", "u", "i", "l", "d", "-", "d", "e", "b", "u", "g">>,
      <<"c", "m", "a", "k", "e", "-", "b", "u", "i", "l", "d", "-", "r", "e", "l", "e", "a", "s", "e">>,
      <<".", "m", "o", "c">>,
      <<".", "r", "c", "c">>,
      <<".", "u", "i", "c">>,
      <<"a", "u", "t", "o", "g", "e", "n">>,
      <<"G", "e", "n", "e", "r", "a", "t", "e", "d", "F", "i", "l", "e", "s">> }

\* str.lower() on the letters of a suffix
UpperLetters ==
    << "A", "B", "C", "D", "E", "F", "G", "H", "I", "J", "K", "L", "M",
       "N", "O", "P", "Q", "R", "S", "T", "U", "V", "W", "X", "Y", "Z" >>

LowerLetters ==
    << "a", "b", "c", "d", "e", "f", "g", "h", "i", "j", "k", "l", "m",
       "n", "o", "p", "q", "r", "s", "t", "u", "v", "w", "x", "y", "z" >>

Lower(s) ==
    [i \in DOMAIN s |->
        IF \E k \in DOMAIN UpperLetters : UpperLetters[k] = s[i]
        THEN LowerLetters[CHOOSE k \in DOMAIN UpperLetters :
                              UpperLetters[k] = s[i]]
        ELSE s[i]]

\* should_exclude(rel_path, excludes)
should_exclude(rel_path, excludes) ==
    \E i \in DOMAIN PathParts(rel_path) : PathParts(rel_path)[i] \in excludes

\* the keys discover_files collects from the files D under the root
discover_files(D, excludes) ==
    {f \in D : /\ Lower(PathSuffix(f)) \in ALL_EXTENSIONS
               /\ ~should_exclude(f, excludes)}

\* sorted(S) on path strings
SortedByPath(S) ==
    CHOOSE q \in Orderings(S) :
        \A i, j \in DOMAIN q : i < j => StrLess(q[i], q[j])

\* Orphans taken as every file that is not an entry point
OrphansNotEntry == SortedByPath({f \in Keys : ~is_entry[f]})

\* sorted([f for f in files.values() if not f.reachable], key=rel_path)
Orphans == SortedByPath({f \in Keys : ~reachable[f]})

\* rel_path.replace('/', '\\')
WinPath(s) == [i \in DOMAIN s |-> IF s[i] = "/" THEN "\\" ELSE s[i]]

\* print_removal_script: the `del` lines of the directories ds[k..], each
\* directory listing its orphans in sorted order
RECURSIVE DelLines(_, _, _)
DelLines(orphans, ds, k) ==
    IF k > Len(ds) THEN <<>>
    ELSE LET in_dir(f) == PathParent(f) = ds[k]
             here      == SelectSeq(orphans, in_dir)
         IN  [i \in DOMAIN here |-> WinPath(here[i])]
             \o DelLines(orphans, ds, k + 1)

\* print_removal_script(files): the paths of its `del` lines, in order
print_removal_script ==
    IF Orphans = <<>> THEN <<>>
    ELSE DelLines(Orphans,
                  SortedByPath({PathParent(f) : f \in Range(Orphans)}), 1)

NotesTxt == <<"n", "o", "t", "e", "s", ".", "t", "x", "t">>
BuildZh  == <<"b", "u", "i", "l", "d", "/", "Z", ".", "h">>
AYH      == <<"a", "/", "Y", ".", "H">>
LitAWh   == <<"a", "/", "W", ".", "h">>
LitYH    == <<"Y", ".", "H">>
LitBuildZh == <<"b", "u", "i", "l", "d", "/", "Z", ".", "h">>
AWCPP    == <<"a", "/", "W", ".", "C", "P", "P">>
RegCpp   == <<"R", "e", "g", ".", "c", "p", "p">>
GrainH   ==
    << "G", "_", "I", "n", "s", "t", "r", "u", "c", "t", "i", "o", "n",
       "G", "r", "a", "i", "n", ".", "h" >>

\* the project trees of the runs of main, with the include literals of
\* every file
MainLayouts ==
    { [disk    |-> {MainCpp, AWh, AXh, AYH, NotesTxt, BuildZh},
       content |-> (MainCpp :> <<LitAWh>> @@ AWh :> <<>> @@ AXh :> <<>> @@
                    AYH :> <<>> @@ NotesTxt :> <<>> @@ BuildZh :> <<>>)],
      [disk    |-> {MainCpp, AWh, AXh, AYH, NotesTxt, BuildZh},
       content |-> (MainCpp :> <<LitAWh, LitAXh, LitBuildZh>> @@
                    AWh :> <<LitYH>> @@ AXh :> <<>> @@
                    AYH :> <<>> @@ NotesTxt :> <<>> @@ BuildZh :> <<LitXh>>)],
      [disk    |-> {AWh, AXh},
       content |-> (AWh :> <<LitXh>> @@ AXh :> <<>>)],
      [disk    |-> {NotesTxt},
       content |-> (NotesTxt :> <<>>)],
      [disk    |-> {MainCpp, AWh, AWCPP, BWh},
       content |-> (MainCpp :> <<LitAWh>> @@ AWh :> <<>> @@ AWCPP :> <<>> @@
                    BWh :> <<>>)],
      [disk    |-> {MainCpp, RegCpp, GrainH},
       content |-> (MainCpp :> <<GrainH>> @@ GrainH :> <<>> @@
                    RegCpp :> <<GrainH, GrainH, GrainH, GrainH, GrainH>>)] }

\* args.entry and args.extra_entry of the runs of main
MainCommandLines ==
    { [entry |-> None, extra |-> <<>>],
      [entry |-> None, extra |-> <<LitXh>>] }

\* the state when main starts: arguments parsed, nothing discovered
MainInit ==
    /\ pc = "main"
    /\ root_is_dir \in BOOLEAN
    /\ \E lay \in MainLayouts :
           /\ disk = IF root_is_dir THEN lay.disk ELSE {}
           /\ content = IF root_is_dir THEN lay.content ELSE <<>>
    /\ args \in [suggest_remove : BOOLEAN, move_to_hive : BOOLEAN,
                 dry_run : BOOLEAN]
    /\ \E cl \in MainCommandLines :
           /\ entry_arg = cl.entry
           /\ extra_arg = cl.extra
    /\ files = <<>>
    /\ entry_points = <<>>
    /\ resolved_deps = <<>>
    /\ included_by = <<>>
    /\ broken = <<>>
    /\ reachable = <<>>
    /\ depth = <<>>
    /\ is_entry = <<>>
    /\ queue = <<>>
    /\ visited = {}
    /\ enq_count = <<>>
    /\ moved = <<>>
    /\ del_lines = <<>>
    /\ aggs = <<>>
    /\ notes = <<>>
    /\ file_map = <<>>
    /\ include_graph = <<>>
    /\ todo = {}
    /\ checked_cycles = {}
    /\ all_cycles = <<>>
    /\ ResIdle
    /\ ExtIdle

\* `if not root.is_dir(): sys.exit(1)`
RootNotADirectory ==
    /\ pc = "main"
    /\ ~root_is_dir
    /\ pc' = "exit1"
    /\ UNCHANGED <<dffVars, resVars, cycVars, outVars, extVars>>

\* phase 1: files = discover_files(root, excludes); rglob yields the files
\* in the order of the directory listing
DiscoverFiles ==
    /\ pc = "main"
    /\ root_is_dir
    /\ \E q \in WalkOrders(discover_files(disk, DEFAULT_EXCLUDES)) :
           /\ files' = q
           /\ resolved_deps' = [f \in Range(q) |-> <<>>]
           /\ included_by' = [f \in Range(q) |-> <<>>]
           /\ reachable' = [f \in Range(q) |-> FALSE]
           /\ depth' = [f \in Range(q) |-> -1]
           /\ is_entry' = [f \in Range(q) |-> FALSE]
           /\ enq_count' = [f \in Range(q) |-> 0]
    /\ pc' = "discovered"
    /\ UNCHANGED <<content, entry_arg, extra_arg, entry_points, broken,
                   queue, visited, resVars, cycVars, outVars, extVars>>

\* the tag of generated units: '_InstructionGrain'
GrainTag ==
    << "_", "I", "n", "s", "t", "r", "u", "c", "t", "i", "o", "n",
       "G", "r", "a", "i", "n" >>

\* `if grain_count >= 5`
GRAIN_THRESHOLD == 5

\* '_InstructionGrain' in d
HasGrainTag(d) ==
    \E k \in 1..(Len(d) - Len(GrainTag) + 1) :
        SubSeq(d, k, k + Len(GrainTag) - 1) = GrainTag

\* grain_count of file f: sum(1 for d in node.resolved_deps if tag in d)
GrainCount(f) ==
    Cardinality({i \in DOMAIN resolved_deps[f] :
                    HasGrainTag(resolved_deps[f][i])})

\* detect_aggregators(files): the flagged rel_paths in dict order
detect_aggregators ==
    LET flagged(f) == GrainCount(f) >= GRAIN_THRESHOLD
    IN  SelectSeq(files, flagged)

\* AggregatorCheck adding every flagged file to the reachable set
AggregatorCheckAdds ==
    /\ pc = "walked"
    /\ aggs' = detect_aggregators
    /\ notes' = <<>>
    /\ reachable' = [f \in Keys |-> reachable[f] \/ f \in Range(aggs')]
    /\ depth' = [f \in Keys |->
                     IF ~reachable[f] /\ f \in Range(aggs') THEN 0
                     ELSE depth[f]]
    /\ pc' = "checked"
    /\ UNCHANGED <<files, content, entry_arg, extra_arg, entry_points,
                   resolved_deps, included_by, broken, is_entry, queue,
                   visited, enq_count, resVars, cycVars, root_is_dir, args,
                   moved, del_lines, extVars>>

\* the aggregator check: aggs = detect_aggregators(files), and a NOTE is
\* logged for every flagged file that is unreachable (log prints nothing
\* with --suggest-remove)
AggregatorCheck ==
    /\ pc = "walked"
    /\ aggs' = detect_aggregators
    /\ LET unreached(a) == ~reachable[a]
       IN  notes' = IF args.suggest_remove THEN <<>>
                    ELSE SelectSeq(aggs', unreached)
    /\ pc' = "checked"
    /\ UNCHANGED <<dffVars, resVars, cycVars, root_is_dir, args, moved,
                   del_lines, extVars>>

\* the output step: print_removal_script(files) with --suggest-remove,
\* print_report otherwise
Output ==
    /\ pc = "checked"
    /\ del_lines' = IF args.suggest_remove THEN print_removal_script
                    ELSE del_lines
    /\ pc' = "reported"
    /\ UNCHANGED <<dffVars, resVars, cycVars, root_is_dir, args, moved,
                   aggs, notes, extVars>>

\* `if args.move_to_hive and orphan_count > 0`: move_to_hive(files, root,
\* hive_dir, dry_run); shutil.move may raise for any of the orphans
MoveToHive ==
    /\ pc = "reported"
    /\ args.move_to_hive
    /\ Orphans # <<>>
    /\ \E failed \in SUBSET Range(Orphans) :
           LET done(f) == args.dry_run \/ f \notin failed
           IN  /\ moved' = SelectSeq(Orphans, done)
               /\ disk' = IF args.dry_run THEN disk
                          ELSE disk \ Range(moved')
    /\ pc' = "exit0"
    /\ UNCHANGED <<dffVars, resVars, file_map, include_graph, todo,
                   checked_cycles, all_cycles, root_is_dir, args, del_lines,
                   aggs, notes, extVars>>

\* main returns without moving anything: exit status 0
MainReturn ==
    /\ pc = "reported"
    /\ ~(args.move_to_hive /\ Orphans # <<>>)
    /\ pc' = "exit0"
    /\ UNCHANGED <<dffVars, resVars, cycVars, outVars, extVars>>

MainNext ==
    \/ RootNotADirectory
    \/ DiscoverFiles
    \/ NoFiles
    \/ LocateEntryPoints
    \/ BuildGraph
    \/ WalkSeed
    \/ WalkStep
    \/ WalkReturn
    \/ AggregatorCheck
    \/ Output
    \/ MoveToHive
    \/ MainReturn

SpecMain == MainInit /\ [][MainNext]_vars

----------------------------------------------------------------------------
(* Outputs and exit status                                                 *)

\* the artifacts that the BFS left unreachable
Unreached == {f \in Keys : ~reachable[f]}

\* C13: only orphans are relocated or scheduled for deletion: every file
\* moved by move_to_hive, every file gone from the tree and every file named
\* in a `del` line is unreachable after the BFS; no entry point and no
\* reachable artifact is moved or listed.
C13_OnlyOrphansTouched ==
    /\ Range(moved) \subseteq Unreached
    /\ (DOMAIN content \ disk) \subseteq Unreached
    /\ \A i \in DOMAIN del_lines :
           /\ \E f \in Unreached : WinPath(f) = del_lines[i]
           /\ \A f \in Keys \ Unreached : WinPath(f) # del_lines[i]
    /\ \A f \in Keys :
           (is_entry[f] \/ reachable[f]) => (f \in disk /\ f \notin Range(moved))

C13_Witness ==
    /\ pc = "exit0"
    /\ ~args.dry_run
    /\ del_lines # <<>>
    /\ moved # <<>>
    /\ disk # DOMAIN content
    /\ \E f \in Keys : reachable[f] /\ ~is_entry[f]

\* C14: a completed analysis exits non-zero exactly when it found
\* something: the dead-file finder when at least one orphan exists, the
\* cycle checker when at least one cycle was retained; it exits zero when
\* neither is present.
C14_ExitSignalsFindings ==
    /\ pc = "exit0" => Unreached = {}
    /\ pc = "cc_exit0" => all_cycles = <<>>
    /\ pc = "cc_exit1" => all_cycles # <<>>

\* C15: when the root is missing or not a directory the run ends with a
\* failure status before discovery, graph build or analysis runs.
C15_MissingRootAborts ==
    ~root_is_dir =>
        /\ pc \in {"main", "exit1", "cc_init", "cc_exit1"}
        /\ files = <<>>
        /\ file_map = <<>>

\* the occurrence in q of the first artifact with the basename of q[k]
FirstNamed(q, k) ==
    LET same == {i \in DOMAIN q : PathName(q[i]) = PathName(q[k])}
    IN  q[CHOOSE i \in same : \A j \in same : i <= j]

\* the discovery orders that only keep the patterns in their order
PatternOrders(D) ==
    {q \in Orderings(Discovered(D)) :
        \A i, j \in DOMAIN q : i < j => PatternOf(q[i]) <= PatternOf(q[j])}

----------------------------------------------------------------------------
(* Include extraction: check_circular.py extract_includes and              *)
(* dead_file_finder.py parse_includes, one physical line per step.  A line *)
(* is the sequence of its characters without the line terminator.          *)

Hash      == "#"
Quote     == "\""
Backslash == "\\"

\* the characters that \s and str.strip() treat as blank within a line
IsSpace(c) == c \in {" ", "\t"}

\* the first index >= i of s that holds no blank (Len(s) + 1 if none)
RECURSIVE SkipSpaces(_, _)
SkipSpaces(s, i) ==
    IF i <= Len(s) /\ IsSpace(s[i]) THEN SkipSpaces(s, i + 1) ELSE i

\* the last index <= i of s that holds no blank (0 if none)
RECURSIVE SkipSpacesBack(_, _)
SkipSpacesBack(s, i) ==
    IF i >= 1 /\ IsSpace(s[i]) THEN SkipSpacesBack(s, i - 1) ELSE i

\* s.strip()
Strip(s) == SubSeq(s, SkipSpaces(s, 1), SkipSpacesBack(s, Len(s)))

\* s[i:].startswith(sub), i 1-based
At(s, i, sub) ==
    /\ i >= 1
    /\ i + Len(sub) - 1 <= Len(s)
    /\ SubSeq(s, i, i + Len(sub) - 1) = sub

\* sub in s
Contains(s, sub) == \E i \in 1..Len(s) : At(s, i, sub)

\* the first index >= i of s that holds a character of stops (0 if none)
FirstOf(s, i, stops) ==
    IF \E t \in i..Len(s) : s[t] \in stops
    THEN CHOOSE t \in i..Len(s) :
             s[t] \in stops /\ \A u \in i..(t - 1) : s[u] \notin stops
    ELSE 0

IncludeWord == <<"i", "n", "c", "l", "u", "d", "e">>

\* re.match(r'#include\s+[<"]([^>"]+)[>"]', stripped): group 1, or None
cc_match(stripped) ==
    LET j == SkipSpaces(stripped, 9)
        t == FirstOf(stripped, j + 1, {">", Quote})
    IN  IF /\ At(stripped, 1, <<Hash>> \o IncludeWord)
           /\ j > 9
           /\ j <= Len(stripped)
           /\ stripped[j] \in {"<", Quote}
           /\ t > j + 1
        THEN SubSeq(stripped, j + 1, t - 1)
        ELSE None

\* INCLUDE_PATTERN = r'#\s*include\s+"([^"]+)"' matched at index i of line:
\* group 1, or None
dff_match_at(line, i) ==
    LET j == SkipSpaces(line, i + 1)
        k == SkipSpaces(line, j + 7)
        t == FirstOf(line, k + 1, {Quote})
    IN  IF /\ At(line, i, <<Hash>>)
           /\ At(line, j, IncludeWord)
           /\ k > j + 7
           /\ k <= Len(line)
           /\ line[k] = Quote
           /\ t > k + 1
        THEN SubSeq(line, k + 1, t - 1)
        ELSE None

\* INCLUDE_PATTERN.search(line): group 1 of the leftmost match, or None
dff_search(line) ==
    IF \E i \in 1..Len(line) : dff_match_at(line, i) # None
    THEN dff_match_at(line,
                      CHOOSE i \in 1..Len(line) :
                          /\ dff_match_at(line, i) # None
                          /\ \A u \in 1..(i - 1) : dff_match_at(line, u) = None)
    ELSE None

\* s.replace('\\', '/')
SlashNormalized(s) ==
    [i \in DOMAIN s |-> IF s[i] = Backslash THEN "/" ELSE s[i]]

\* #include "a.h"
LineQuoted ==
    << "#", "i", "n", "c", "l", "u", "d", "e", " ", "\"", "a", ".", "h",
       "\"" >>

\* #include <b.h>
LineAngle ==
    << "#", "i", "n", "c", "l", "u", "d", "e", " ", "<", "b", ".", "h",
       ">" >>

\* // #include "c.h"
LineSlashed ==
    << "/", "/", " ", "#", "i", "n", "c", "l", "u", "d", "e", " ", "\"",
       "c", ".", "h", "\"" >>

\* #include "d.h" // x
LineTrailing ==
    << "#", "i", "n", "c", "l", "u", "d", "e", " ", "\"", "d", ".", "h",
       "\"", " ", "/", "/", " ", "x" >>

\* /*
LineOpen ==
    << "/", "*" >>

\* */
LineClose ==
    << "*", "/" >>

\* */ /*
LineCloseOpen ==
    << "*", "/", " ", "/", "*" >>

\* x; // #include "e.h"
LineCodeSlashed ==
    << "x", ";", " ", "/", "/", " ", "#", "i", "n", "c", "l", "u", "d",
       "e", " ", "\"", "e", ".", "h", "\"" >>

\* #include "f.h" /*
LineBeforeOpen ==
    << "#", "i", "n", "c", "l", "u", "d", "e", " ", "\"", "f", ".", "h",
       "\"", " ", "/", "*" >>

\* /* x */ #include "g.h"
LineAfterClose ==
    << "/", "*", " ", "x", " ", "*", "/", " ", "#", "i", "n", "c", "l",
       "u", "d", "e", " ", "\"", "g", ".", "h", "\"" >>

\* // /*
LineSlashOpen ==
    << "/", "/", " ", "/", "*" >>

SourceLines ==
    { LineQuoted, LineAngle, LineSlashed, LineTrailing, LineOpen, LineClose,
      LineCloseOpen, LineCodeSlashed, LineBeforeOpen, LineAfterClose,
      LineSlashOpen }

\* most physical lines in one file
MaxLines == 3

\* the state when extract_includes opens the file
ExtInit ==
    /\ pc = "ext_cc"
    /\ src_lines \in UNION {[1..n -> SourceLines] : n \in 0..MaxLines}
    /\ ext_pos = 0
    /\ in_comment_block = FALSE
    /\ includes = <<>>
    /\ results = <<>>
    /\ DffIdle
    /\ ResIdle
    /\ CycIdle
    /\ content = <<>>
    /\ OutIdle

\* extract_includes: one iteration of `for line in f`
ExtractLine ==
    /\ pc = "ext_cc"
    /\ ext_pos < Len(src_lines)
    /\ ext_pos' = ext_pos + 1
    /\ LET stripped == Strip(src_lines[ext_pos + 1])
           opened   == IF Contains(stripped, <<"/", "*">>) THEN TRUE
                       ELSE in_comment_block
           match    == cc_match(stripped)
       IN  IF Contains(stripped, <<"*", "/">>)
           THEN /\ in_comment_block' = FALSE
                /\ includes' = includes
           ELSE /\ in_comment_block' = opened
                /\ includes' =
                       IF /\ ~opened
                          /\ ~At(stripped, 1, <<"/", "/">>)
                          /\ match # None
                       THEN Append(includes, match)
                       ELSE includes
    /\ UNCHANGED <<pc, src_lines, results, dffVars, resVars, cycVars,
                   outVars>>

\* extract_includes: the file is exhausted, `return includes`
ExtractReturn ==
    /\ pc = "ext_cc"
    /\ ext_pos = Len(src_lines)
    /\ pc' = "ext_dff"
    /\ ext_pos' = 0
    /\ UNCHANGED <<src_lines, in_comment_block, includes, results, dffVars,
                   resVars, cycVars, outVars>>

\* parse_includes: one iteration of `for lineno, line in enumerate(f, 1)`
ParseLine ==
    /\ pc = "ext_dff"
    /\ ext_pos < Len(src_lines)
    /\ ext_pos' = ext_pos + 1
    /\ LET m == dff_search(src_lines[ext_pos + 1])
       IN  results' = IF m # None
                      THEN Append(results, <<SlashNormalized(m), ext_pos + 1>>)
                      ELSE results
    /\ UNCHANGED <<pc, src_lines, in_comment_block, includes, dffVars,
                   resVars, cycVars, outVars>>

\* parse_includes: the file is exhausted, `return results`
ParseReturn ==
    /\ pc = "ext_dff"
    /\ ext_pos = Len(src_lines)
    /\ pc' = "ext_done"
    /\ UNCHANGED <<src_lines, ext_pos, in_comment_block, includes, results,
                   dffVars, resVars, cycVars, outVars>>

ExtNext ==
    \/ ExtractLine
    \/ ExtractReturn
    \/ ParseLine
    \/ ParseReturn

SpecExtract == ExtInit /\ [][ExtNext]_vars

----------------------------------------------------------------------------
(* What extraction is to yield: the include directives of a line, by the   *)
(* region of the text they lie in                                          *)

NoDirective == [kind |-> "none", lit |-> <<>>, last |-> 0]

\* the include directive that starts at index i of line: # include "lit"
\* or # include <lit>
DirectiveAt(line, i) ==
    LET j      == SkipSpaces(line, i + 1)
        k      == SkipSpaces(line, j + 7)
        closer == IF k <= Len(line) /\ line[k] = "<" THEN ">" ELSE Quote
        t      == FirstOf(line, k + 1, {closer})
    IN  IF /\ At(line, i, <<Hash>>)
           /\ At(line, j, IncludeWord)
           /\ k <= Len(line)
           /\ line[k] \in {"<", Quote}
           /\ t > k + 1
        THEN [kind |-> IF line[k] = "<" THEN "angle" ELSE "quoted",
              lit  |-> SubSeq(line, k + 1, t - 1),
              last |-> t]
        ELSE NoDirective

\* scan line from index i in mode "code", "block" (inside /* */) or "slash"
\* (after //); acc collects the literals of the directives by region
RECURSIVE Regions(_, _, _, _)
Regions(line, i, mode, acc) ==
    IF i > Len(line)
    THEN [acc EXCEPT !.open = (mode = "block")]
    ELSE IF mode = "block" /\ At(line, i, <<"*", "/">>)
    THEN Regions(line, i + 2, "code", acc)
    ELSE IF mode = "code" /\ At(line, i, <<"/", "/">>)
    THEN Regions(line, i + 2, "slash", [acc EXCEPT !.has_slash = TRUE])
    ELSE IF mode = "code" /\ At(line, i, <<"/", "*">>)
    THEN Regions(line, i + 2, "block", acc)
    ELSE LET d == DirectiveAt(line, i)
         IN  IF d.kind = "none" THEN Regions(line, i + 1, mode, acc)
             ELSE IF d.kind = "angle"
             THEN Regions(line, i + 1, mode,
                          [acc EXCEPT !.angle = Append(@, d.lit)])
             ELSE IF mode = "code"
             THEN Regions(line, d.last + 1, mode,
                          [acc EXCEPT !.code = Append(@, d.lit)])
             ELSE IF mode = "block"
             THEN Regions(line, i + 1, mode,
                          [acc EXCEPT !.in_block = Append(@, d.lit)])
             ELSE Regions(line, i + 1, mode,
                          [acc EXCEPT !.in_slash = Append(@, d.lit)])

NoRegions ==
    [code |-> <<>>, in_block |-> <<>>, in_slash |-> <<>>, angle |-> <<>>,
     has_slash |-> FALSE, open |-> FALSE]

\* a block comment is open after the first n lines
RECURSIVE OpenAfter(_, _)
OpenAfter(lines, n) ==
    IF n = 0 THEN FALSE
    ELSE Regions(lines[n], 1,
                 IF OpenAfter(lines, n - 1) THEN "block" ELSE "code",
                 NoRegions).open

\* the regions of line n of the file
RegionsOfLine(lines, n) ==
    Regions(lines[n], 1,
            IF OpenAfter(lines, n - 1) THEN "block" ELSE "code", NoRegions)

\* this step consumes one line in either extractor
ConsumesLine == ext_pos' = ext_pos + 1

\* this step extracts nothing
ExtractsNothing == includes' = includes /\ results' = results

\* this step extracts exactly the literal lit from the line it consumes
Extracts(lit) ==
    IF pc = "ext_cc" THEN includes' = Append(includes, lit)
    ELSE results' = Append(results, <<lit, ext_pos'>>)

\* C17: an angle-bracket include never produces a raw include: a line whose
\* only include directives are #include <X> adds nothing to the extracted
\* list of either extractor.
C17_AngleNeverExtracted ==
    [][ConsumesLine =>
           LET r == RegionsOfLine(src_lines, ext_pos')
           IN  (r.angle # <<>> /\ r.code = <<>> /\ r.in_block = <<>>
                /\ r.in_slash = <<>>) => ExtractsNothing]_vars

\* C18: the extractors yield exactly the directives outside every /* */
\* region: a line whose directives all lie inside a block comment adds
\* nothing, and a quoted directive outside every comment is extracted.
C18_BlockCommentsSkipped ==
    [][ConsumesLine =>
           LET r == RegionsOfLine(src_lines, ext_pos')
           IN  /\ (r.in_block # <<>> /\ r.code = <<>> /\ r.in_slash = <<>>)
                      => ExtractsNothing
               /\ (Len(r.code) = 1 /\ ~r.has_slash)
                      => Extracts(r.code[1])]_vars

\* C19: a directive after // on its line is never extracted, and a directive
\* that precedes a trailing // comment on its line is extracted.
C19_LineCommentsSkipped ==
    [][ConsumesLine =>
           LET r == RegionsOfLine(src_lines, ext_pos')
           IN  /\ (r.in_slash # <<>> /\ r.code = <<>> /\ r.in_block = <<>>)
                      => ExtractsNothing
               /\ (Len(r.code) = 1 /\ r.has_slash)
                      => Extracts(r.code[1])]_vars

----------------------------------------------------------------------------
(* FileNode: reachable and depth                                           *)

\* C20: in every state during and after the reachability walk, every
\* artifact has reachable => depth >= 0 and ~reachable => depth = -1.
C20_FlagAndDepthInStep ==
    \A f \in Keys :
        /\ reachable[f] => depth[f] >= 0
        /\ ~reachable[f] => depth[f] = -1

C20_Witness ==
    /\ pc = "bfs"
    /\ queue # <<>>
    /\ \E f \in Keys : reachable[f] /\ depth[f] >= 1
    /\ \E f \in Keys : ~reachable[f]

----------------------------------------------------------------------------
(* The BFS queue of walk_reachability                                      *)

\* C21: during one run of walk_reachability, for any entry list (also one
\* that names the same artifact more than once), every artifact is appended
\* to the BFS queue at most once.
C21_EnqueuedAtMostOnce ==
    \A f \in Keys : enq_count[f] <= 1

WHdr == <<"W", ".", "h">>
WSrc == <<"W", ".", "c", "c">>
XHdr == <<"X", ".", "h">>

\* the files dict of the runs: a header, its source and a second header
WalkTree == <<WHdr, WSrc, XHdr>>

\* the include lines a file can hold: for any set of files of the tree, one
\* include of each by its root-relative path, in sorted order
WalkContents == {SortedByPath(T) : T \in SUBSET Range(WalkTree)}

\* args.entry and args.extra_entry of the runs
WalkCommandLines ==
    { [entry |-> XHdr, extra |-> <<>>],
      [entry |-> XHdr, extra |-> <<XHdr, WSrc>>],
      [entry |-> None, extra |-> <<>>] }

\* the state when main starts: arguments parsed, nothing discovered
WalkInit ==
    /\ pc = "main"
    /\ \E cl \in WalkCommandLines :
           /\ entry_arg = cl.entry
           /\ extra_arg = cl.extra
    /\ content = <<>>
    /\ files = <<>>
    /\ entry_points = <<>>
    /\ resolved_deps = <<>>
    /\ included_by = <<>>
    /\ broken = <<>>
    /\ reachable = <<>>
    /\ depth = <<>>
    /\ is_entry = <<>>
    /\ queue = <<>>
    /\ visited = {}
    /\ enq_count = <<>>
    /\ ResIdle
    /\ OutIdle
    /\ ExtIdle
    /\ CycIdle

\* phase 1: discover_files finds the tree, whose files hold any of the
\* include graphs over it
WalkDiscover ==
    /\ pc = "main"
    /\ files' = WalkTree
    /\ content' \in [Range(WalkTree) -> WalkContents]
    /\ resolved_deps' = [f \in Range(WalkTree) |-> <<>>]
    /\ included_by' = [f \in Range(WalkTree) |-> <<>>]
    /\ reachable' = [f \in Range(WalkTree) |-> FALSE]
    /\ depth' = [f \in Range(WalkTree) |-> -1]
    /\ is_entry' = [f \in Range(WalkTree) |-> FALSE]
    /\ enq_count' = [f \in Range(WalkTree) |-> 0]
    /\ pc' = "discovered"
    /\ UNCHANGED <<entry_arg, extra_arg, entry_points, broken, queue,
                   visited, resVars, cycVars, outVars, extVars>>

WalkNext ==
    \/ WalkDiscover
    \/ LocateEntryPoints
    \/ BuildGraph
    \/ WalkSeed
    \/ WalkStep
    \/ WalkReturn

\* walk_reachability runs to completion once called: the single thread
\* keeps executing the `while queue` loop and the return that follows it
SpecWalk ==
    WalkInit /\ [][WalkNext]_vars /\ WF_vars(WalkStep) /\ WF_vars(WalkReturn)

\* C22: walk_reachability terminates on every finite graph, including
\* graphs with include cycles, self-includes and mutual sibling pairs: the
\* queue eventually becomes empty and the function returns.
C22_WalkTerminates ==
    (pc = "bfs") ~> (pc = "walked" /\ queue = <<>>)

\* a finished walk over a self-include, a two-file include cycle and a
\* header/source pair, all of them reached
C22_Witness ==
    /\ pc = "walked"
    /\ \E f \in Keys : reachable[f] /\ IncludeEdge(f, f)
    /\ \E a, b \in Keys :
           /\ a # b
           /\ reachable[a]
           /\ IncludeEdge(a, b)
           /\ IncludeEdge(b, a)
    /\ \E a, b \in Keys :
           /\ reachable[a]
           /\ reachable[b]
           /\ SiblingEdge(a, b)
           /\ SiblingEdge(b, a)







----------------------------------------------------------------------------
(* Sibling pairing                                                         *)

\* FileNode.extension: filepath.suffix.lower()
extension(f) == Lower(PathSuffix(f))

\* b is in the directory of a, has its filename stem and another
\* allow-listed extension
PairedWith(a, b) ==
    /\ a # b
    /\ PathParent(a) = PathParent(b)
    /\ PathStem(a) = PathStem(b)
    /\ extension(b) \in ALL_EXTENSIONS
    /\ extension(b) # extension(a)

\* C23: when an artifact is dequeued at depth d, every discovered, not yet
\* visited artifact in the same directory with the same filename stem and a
\* different allow-listed extension becomes reachable at depth d + 1, in
\* both directions, though no include names it; an artifact with the same
\* stem in another directory is not paired.
C23_SiblingsPaired ==
    [][(pc = "bfs" /\ queue # <<>>) =>
           LET current == Head(queue)[1]
               d       == Head(queue)[2]
           IN  \A s \in Keys \ visited :
                   /\ (PairedWith(current, s) \/ PairedWith(s, current))
                          => (reachable'[s] /\ depth'[s] = d + 1)
                   /\ (/\ PathStem(s) = PathStem(current)
                       /\ PathParent(s) # PathParent(current)
                       /\ ~IncludeEdge(current, s))
                          => (~reachable'[s] /\ depth'[s] = -1)]_vars

----------------------------------------------------------------------------
(* Ambiguous suffix matches                                                *)

\* the keys of F that end in the last n path components of raw
SuffixMatches(raw, n, F) ==
    LET raw_parts == PathParts(raw)
    IN  {r \in F : EndsWith(r, JoinSlash(SubSeq(raw_parts,
                                                 Len(raw_parts) - n + 1,
                                                 Len(raw_parts))))}

\* the longest suffix length of raw at which some key matches, 0 if none
LongestMatch(raw, F) ==
    LET lens == {n \in 1..Len(PathParts(raw)) : SuffixMatches(raw, n, F) # {}}
    IN  IF lens = {} THEN 0
        ELSE CHOOSE n \in lens : \A k \in lens : k <= n

\* the relative, direct and strip rules find nothing, two or more keys match
\* the literal at its longest matching suffix, of two or more components,
\* and the includer's top-level directory does not single one of them out
TrulyAmbiguous(raw, includer, F) ==
    LET n       == LongestMatch(raw, F)
        matches == SuffixMatches(raw, n, F)
    IN  /\ RelativeCandidate(raw, includer) \notin F
        /\ raw \notin F
        /\ StripDotDot(raw) \notin F
        /\ n >= 2
        /\ Cardinality(matches) >= 2
        /\ Cardinality({m \in matches : TopOf(m) = TopOf(includer)}) # 1

----------------------------------------------------------------------------
(* The aggregator check of main                                            *)

\* C25: the aggregator check is advisory only: detect_aggregators and the
\* note that main prints leave every artifact's reachable, depth and
\* is_entry and the entry-point list unchanged, so a flagged aggregator that
\* is unreachable stays unreachable and is still counted as an orphan.
C25_AggregatorAdvisory ==
    [][/\ pc = "walked" =>
              /\ reachable' = reachable
              /\ depth' = depth
              /\ is_entry' = is_entry
              /\ entry_points' = entry_points
       /\ \A i \in DOMAIN notes' :
              /\ ~reachable'[notes'[i]]
              /\ notes'[i] \in Range(Orphans')]_vars

\* a finished run that flagged an unreachable aggregator, logged the note
\* for it and moved it to the hive with the other orphans
C25_Witness ==
    /\ pc = "exit0"
    /\ aggs # <<>>
    /\ notes = aggs
    /\ Range(notes) \subseteq Range(moved)
    /\ \E f \in Keys : reachable[f] /\ HasGrainTag(f)

----------------------------------------------------------------------------
(* The two analyses over the built graph                                   *)

\* a run of dead_file_finder.py or a run of check_circular.py
SpecAnalyses == (MainInit \/ CycInit) /\ [][MainNext \/ CycNext]_vars

\* C26: once the graph is built it is read-only for both analyses:
\* walk_reachability changes only reachable, depth and is_entry and leaves
\* every artifact's resolved_deps, included_by and path and the
\* broken-reference list unchanged; find_all_cycles leaves the include
\* graph's node set and edge sets unchanged.
C26_GraphReadOnly ==
    [][/\ pc \in {"built", "bfs"} =>
              /\ files' = files
              /\ resolved_deps' = resolved_deps
              /\ included_by' = included_by
              /\ broken' = broken
              /\ entry_points' = entry_points
       /\ pc \in {"cc_built", "cc_search"} =>
              /\ DOMAIN include_graph' = DOMAIN include_graph
              /\ include_graph' = include_graph
              /\ file_map' = file_map]_vars

\* a finished walk over a graph with edges and a broken reference that
\* reached a file beyond the entry points
C26_Witness ==
    /\ pc = "walked"
    /\ broken # <<>>
    /\ \E f \in Keys : resolved_deps[f] # <<>>
    /\ \E f \in Keys : included_by[f] # <<>>
    /\ \E f \in Keys : reachable[f] /\ ~is_entry[f]

----------------------------------------------------------------------------
(* Forward and reverse adjacency                                           *)

\* the number of occurrences of x in list q
Occurrences(q, x) == Cardinality({i \in DOMAIN q : q[i] = x})

\* C27: after build_dependency_graph, forward and reverse adjacency mirror
\* each other: for all artifacts A and B, B occurs in A's resolved_deps
\* exactly as many times as A occurs in B's included_by.
C27_AdjacencyMirrored ==
    pc \in {"built", "bfs", "walked"} =>
        \A a \in Keys, b \in Keys :
            Occurrences(resolved_deps[a], b) = Occurrences(included_by[b], a)

\* a built graph in which one file includes another twice and some file
\* includes itself
C27_Witness ==
    /\ pc = "built"
    /\ \E a \in Keys, b \in Keys :
           a # b /\ Occurrences(resolved_deps[a], b) = 2
    /\ \E a \in Keys : Occurrences(included_by[a], a) = 1

----------------------------------------------------------------------------
(* The target of a resolved include                                        *)

\* C28: every edge that resolve_include produces points to an artifact whose
\* filename equals the filename of the include literal, so an include of
\* B.h never resolves to a file such as FB.h.
C28_TargetHasLiteralName ==
    pc \in {"res_dff", "res_done"} =>
        (res_out.dff # None => PathName(res_out.dff) = PathName(res_in.raw))

----------------------------------------------------------------------------
(* Extra entry hints                                                       *)

\* hint names a discovered artifact by its exact path or by its basename
HintMatches(hint, r) == r = hint \/ PathName(r) = PathName(hint)

\* the hints of args.extra_entry that match some discovered artifact
MatchingHints ==
    {i \in DOMAIN extra_arg : \E r \in Keys : HintMatches(extra_arg[i], r)}

\* C29: an --extra-entry hint that matches no discovered artifact by exact
\* path or by basename adds no entry point: every artifact that main appends
\* for an extra hint has a path or basename equal to that hint.
C29_UnmatchedHintAddsNothing ==
    pc \in {"entries", "built", "bfs", "walked"} =>
        LET main_entry == find_entry_point(files, entry_arg)
            first      == IF main_entry # None THEN 1 ELSE 0
        IN  /\ Len(entry_points) = first + Cardinality(MatchingHints)
            /\ \A j \in (first + 1)..Len(entry_points) :
                   \E i \in DOMAIN extra_arg :
                       HintMatches(extra_arg[i], entry_points[j])

----------------------------------------------------------------------------
(* Outputs come after the walk                                             *)

\* the reachability walk has completed from at least one resolved entry
\* point
WalkCompleted ==
    /\ pc \in {"walked", "checked", "reported", "exit0"}
    /\ queue = <<>>
    /\ \E e \in Range(entry_points) :
           e \in Keys /\ is_entry[e] /\ reachable[e] /\ depth[e] = 0

\* C30: in every run of the dead-file finder, no file is moved and no
\* removal-script line is emitted before a reachability walk has completed
\* from at least one resolved entry point: a run with no files or no entry
\* point exits without ever classifying artifacts as orphans.
C30_OutputsAfterWalk ==
    /\ (moved # <<>> \/ del_lines # <<>> \/ notes # <<>>
        \/ DOMAIN content \ disk # {}) => WalkCompleted
    /\ pc = "exit1" =>
           /\ moved = <<>>
           /\ del_lines = <<>>
           /\ notes = <<>>
           /\ DOMAIN content \subseteq disk
           /\ \A f \in Keys : ~reachable[f] /\ depth[f] = -1

\* a finished run from two entry points that printed del lines and moved
\* the orphans
C30_Witness ==
    /\ pc = "exit0"
    /\ Len(entry_points) = 2
    /\ del_lines # <<>>
    /\ Range(moved) = Unreached
    /\ moved # <<>>

====
